---- MODULE Spec2Model ----
(***************************************************************************)
(* Model of the cw20-merkle-bidding-airdrop contract.                      *)
(*                                                                         *)
(* The entry points present in contract.rs (instantiate, UpdateConfig,     *)
(* Bid, ChangeBid, RemoveBid, RegisterMerkleRoot) are translated from the  *)
(* source.  The entry points that msg.rs and the tests declare but whose   *)
(* handlers are absent from contract.rs (RegisterMerkleRoots with totals   *)
(* and a game root, ClaimAirdrop, WithdrawAirdrop) are translated from the *)
(* design document; each such definition says so in its comment.           *)
(*                                                                         *)
(* A call that returns an error, or that panics, is rolled back by the     *)
(* host: the storage after it is the storage before it.  Every call, also  *)
(* a failing one, is a step of the model: the variable `call` records the  *)
(* call, its typed result and the messages of its response.                *)
(*                                                                         *)
(* Stages are scheduled by block height (Scheduled::AtHeight with          *)
(* Duration::Height), as in every test of the repository.                  *)
(***************************************************************************)
EXTENDS Integers, Sequences, FiniteSets, TLC

VARIABLES store, block, call

vars == <<store, block, call>>

\* ---------------------------------------------------------------- bounds

\* Highest block height the clock reaches.
MaxHeight == 6

\* Largest start height and largest duration of a stage offered to instantiate.
MaxStart == 3

MaxDuration == 2

\* ------------------------------------------------------- option values

None == <<>>

Some(x) == <<x>>

IsSome(o) == Len(o) = 1

Unwrap(o) == o[1]

\* A storage map (cw_storage_plus::Map) with no entry.
EmptyMap == [k \in {} |-> 0]

\* ------------------------------------------------------- byte strings
\* A byte string is a sequence of one-character strings.

Digit == <<"0", "1", "2", "3", "4", "5", "6", "7", "8", "9">>

\* Uint128's Display: the decimal digits of n, most significant first.
RECURSIVE Decimal(_)
Decimal(n) ==
    IF n < 10 THEN <<Digit[n + 1]>>
    ELSE Decimal(n \div 10) \o <<Digit[(n % 10) + 1]>>

\* The text of each address (Addr's Display).
AddrText ==
    [x \in {"o", "a", "a1", "w"} |->
        CASE x = "o" -> <<"o">>
          [] x = "a" -> <<"a">>
          [] x = "a1" -> <<"a", "1">>
          [] x = "w" -> <<"w">>]

\* SHA-256 as an ideal hash: an injective map from byte strings to digests.
\* The digest of x is x between a pair of brackets, so that a digest, and a
\* concatenation of two digests, can be read back in one way only.
SHA256(bytes) == <<"[">> \o bytes \o <<"]">>

\* The rank of a byte in the order of raw byte values.
ByteOrder ==
    <<"[", "]", "0", "1", "2", "3", "4", "5", "6", "7", "8", "9", "a", "o", "w", "z">>

ByteRank(b) == CHOOSE i \in 1..Len(ByteOrder) : ByteOrder[i] = b

\* Lexicographic order of two byte strings by raw byte value (slice Ord).
RECURSIVE BytesLess(_, _)
BytesLess(x, y) ==
    IF y = <<>> THEN FALSE
    ELSE IF x = <<>> THEN TRUE
    ELSE IF Head(x) = Head(y) THEN BytesLess(Tail(x), Tail(y))
    ELSE ByteRank(Head(x)) < ByteRank(Head(y))

\* The nesting depth of brackets after each prefix of x, or -1 once a prefix
\* closes more brackets than it opens.
RECURSIVE Depth(_, _)
Depth(x, d) ==
    IF d < 0 THEN -1
    ELSE IF x = <<>> THEN d
    ELSE Depth(Tail(x), IF Head(x) = "[" THEN d + 1
                        ELSE IF Head(x) = "]" THEN d - 1 ELSE d)

\* x is exactly one digest (32 bytes): one bracket opened first, closed last,
\* and not closed before.
IsDigest(x) ==
    /\ Len(x) >= 2
    /\ x[1] = "["
    /\ x[Len(x)] = "]"
    /\ Depth(x, 0) = 0
    /\ \A i \in 1..(Len(x) - 1) : Depth(SubSeq(x, 1, i), 0) > 0

\* ------------------------------------------------------------ hex text
\* A hex string on the wire: the bytes it encodes and the case of its digits.
\* Two strings that differ in case only decode to the same bytes.
HexText(bytes, upper) == [digits |-> bytes, upper |-> upper]

Hex(bytes) == HexText(bytes, FALSE)

\* hex::decode_to_slice into a 32-byte buffer: the bytes, or an error when the
\* string does not encode exactly 32 bytes.
HexDecode32(h) ==
    IF IsDigest(h.digits) THEN [ok |-> TRUE, bytes |-> h.digits]
    ELSE [ok |-> FALSE, bytes |-> <<>>]

\* ------------------------------------------------------------- stages

Stage(start, duration) == [start |-> start, duration |-> duration]

\* A start that triggers one block late: strictly after the scheduled height.
is_triggered_After(start, blk) == blk.height > start

\* Scheduled::AtHeight(h).is_triggered(block)
is_triggered(start, blk) == blk.height >= start

\* The end of a stage: start + duration.
StageEnd(stage) == stage.start + stage.duration

\* An end that expires one block late: strictly after the end height.
is_expired_After(end, blk) == blk.height > end

\* Expiration::AtHeight(h).is_expired(block)
is_expired(end, blk) == blk.height >= end

\* ------------------------------------------------------------- storage

Addrs == {"o", "a", "a1"}

\* The storage of a contract that has not been instantiated.
EmptyStore ==
    [CONFIG |-> None,
     STAGE_BID |-> None,
     STAGE_CLAIM_AIRDROP |-> None,
     STAGE_CLAIM_PRIZE |-> None,
     TICKET_PRICE |-> None,
     BIDS |-> EmptyMap,
     MERKLE_ROOT_AIRDROP |-> None,
     MERKLE_ROOT_GAME |-> None,
     CLAIMED_AIRDROP_AMOUNT |-> None,
     TOTAL_AIRDROP_AMOUNT |-> None,
     CLAIM_AIRDROP |-> EmptyMap,
     CLAIM_PRIZE |-> EmptyMap,
     WINNERS |-> None]

\* Results of a call.
Ok == "Ok"

\* The record of a call: the operation, its sender and arguments, the typed
\* result and the messages of the response.
Call(op, sender, arg, err, msgs) ==
    [op |-> op, sender |-> sender, arg |-> arg, err |-> err, msgs |-> msgs]

NoCall == Call("None", "o", <<>>, Ok, <<>>)

\* The storage a call leaves: what it wrote if it returned Ok, and the storage
\* it found otherwise (an error or a panic reverts the whole call).
Commit(err, written) == IF err = Ok THEN written ELSE store

\* A cw20 transfer instruction (WasmMsg::Execute of Cw20ExecuteMsg::Transfer):
\* `asset` is the token contract.
Cw20Transfer(token, recipient, amount) ==
    [kind |-> "cw20_transfer", asset |-> token, to |-> recipient, amount |-> amount]

\* A native transfer instruction (BankMsg::Send): `asset` is the denomination.
BankSend(recipient, amount, denom) ==
    [kind |-> "bank_send", asset |-> denom, to |-> recipient, amount |-> amount]

\* Map::save of one key.
MapSave(m, k, v) == [x \in (DOMAIN m) \cup {k} |-> IF x = k THEN v ELSE m[x]]

\* Map::remove of one key.
MapRemove(m, k) == [x \in (DOMAIN m) \ {k} |-> m[x]]

\* Map::may_load of one key.
MapMayLoad(m, k) == IF k \in DOMAIN m THEN Some(m[k]) ELSE None

\* The stored configuration and stages (Item::load after instantiation).
Config == Unwrap(store.CONFIG)

StageBid == Unwrap(store.STAGE_BID)

StageClaimAirdrop == Unwrap(store.STAGE_CLAIM_AIRDROP)

\* A coin attached to a call.
Coin(amount, denom) == [amount |-> amount, denom |-> denom]

\* The sum of the amounts of the coins of one denomination.
RECURSIVE SumDenom(_, _)
SumDenom(coins, denom) ==
    IF coins = <<>> THEN 0
    ELSE (IF Head(coins).denom = denom THEN Head(coins).amount ELSE 0)
         + SumDenom(Tail(coins), denom)

get_amount_for_denom(coins, denom) == Coin(SumDenom(coins, denom), denom)

send_back_bid(recipient, bid, denom) == BankSend(recipient, bid, denom)

\* An owner check that admits every sender once no owner is set.
IsOwner_UnsetAdmits(sender) ==
    ~IsSome(Config.owner) \/ sender = Unwrap(Config.owner)

\* An owner check that forgets to compare the sender with the owner.
IsOwner_AnySender(sender) == IsSome(Config.owner)

\* The owner check every privileged handler starts with: the owner is set
\* and is the sender.
IsOwner(sender) == IsSome(Config.owner) /\ sender = Unwrap(Config.owner)

\* ------------------------------------------------- handlers of contract.rs

\* An instantiate that makes the sender the owner, whatever the message says.
InstantiateStore_SenderOwner(sender, msg) ==
    [EmptyStore EXCEPT
        !.CONFIG = Some([owner |-> Some(sender),
                         cw20_token_address |-> msg.cw20_token_address]),
        !.STAGE_BID = Some(msg.stage_bid),
        !.STAGE_CLAIM_AIRDROP = Some(msg.stage_claim_airdrop),
        !.STAGE_CLAIM_PRIZE = Some(msg.stage_claim_prize),
        !.TICKET_PRICE = Some(msg.ticket_price)]

\* The storage instantiate writes.  It validates nothing about the stages.
InstantiateStore(sender, msg) ==
    [EmptyStore EXCEPT
        !.CONFIG = Some([owner |-> Some(IF IsSome(msg.owner) THEN Unwrap(msg.owner)
                                          ELSE sender),
                         cw20_token_address |-> msg.cw20_token_address]),
        !.STAGE_BID = Some(msg.stage_bid),
        !.STAGE_CLAIM_AIRDROP = Some(msg.stage_claim_airdrop),
        !.STAGE_CLAIM_PRIZE = Some(msg.stage_claim_prize),
        !.TICKET_PRICE = Some(msg.ticket_price)]

\* The result of instantiate: it has no failing path of its own.
InstantiateResult(sender, msg) == Ok

instantiate(sender, msg) ==
    /\ store = EmptyStore
    /\ store' = IF InstantiateResult(sender, msg) = Ok
                THEN InstantiateStore(sender, msg) ELSE store
    /\ call' = Call("Instantiate", sender, msg, InstantiateResult(sender, msg), <<>>)
    /\ UNCHANGED block

\* An UpdateConfig that does not authorize its sender.
execute_update_config_Unchecked(sender, new_owner) ==
    /\ store' = [store EXCEPT !.CONFIG = Some([Config EXCEPT !.owner = new_owner])]
    /\ call' = Call("UpdateConfig", sender, [new_owner |-> new_owner], Ok, <<>>)
    /\ UNCHANGED block

execute_update_config(sender, new_owner) ==
    LET err == IF ~IsOwner(sender) THEN "Unauthorized" ELSE Ok
        written == [store EXCEPT
                      !.CONFIG = Some([Config EXCEPT !.owner = new_owner])]
    IN  /\ store' = Commit(err, written)
        /\ call' = Call("UpdateConfig", sender, [new_owner |-> new_owner], err, <<>>)
        /\ UNCHANGED block

\* The result of Bid.  The closure given to BIDS.update names its parameter
\* `allocation` too, so it unwraps the stored bid, not the submitted one: with
\* no stored bid the unwrap panics.
BidResult(sender, funds, allocation) ==
    IF ~IsOwner(sender) THEN "Unauthorized"
    ELSE IF ~is_triggered(StageBid.start, block) THEN "BidStageNotBegun"
    ELSE IF is_expired(StageEnd(StageBid), block) THEN "BidStageEnded"
    ELSE IF get_amount_for_denom(funds, "ujuno").amount < Unwrap(store.TICKET_PRICE)
         THEN "TicketPriceNotPaid"
    ELSE IF ~IsSome(MapMayLoad(store.BIDS, sender)) THEN "Panic"
    ELSE Ok

execute_bid(sender, funds, allocation) ==
    LET err == BidResult(sender, funds, allocation)
        written == [store EXCEPT
                      !.BIDS = MapSave(@, sender, Unwrap(MapMayLoad(@, sender)))]
    IN  /\ store' = Commit(err, written)
        /\ call' = Call("Bid", sender, [funds |-> funds, allocation |-> allocation],
                        err, <<>>)
        /\ UNCHANGED block

\* The result of ChangeBid.  BIDS.load fails with StdError::NotFound when the
\* sender has no bid; a stored bid of zero counts as no bid.
ChangeBidResult(sender, allocation) ==
    IF ~IsOwner(sender) THEN "Unauthorized"
    ELSE IF ~is_triggered(StageBid.start, block) THEN "BidStageNotBegun"
    ELSE IF is_expired(StageEnd(StageBid), block) THEN "BidStageEnded"
    ELSE IF ~IsSome(MapMayLoad(store.BIDS, sender)) THEN "StdNotFound"
    ELSE IF store.BIDS[sender] = 0 THEN "NonExistentBid"
    ELSE Ok

execute_change_bid(sender, allocation) ==
    LET err == ChangeBidResult(sender, allocation)
        written == [store EXCEPT
                      !.BIDS = MapSave(@, sender, Unwrap(MapMayLoad(@, sender)))]
    IN  /\ store' = Commit(err, written)
        /\ call' = Call("ChangeBid", sender, [allocation |-> allocation], err, <<>>)
        /\ UNCHANGED block

\* A RemoveBid that does not look at the end of the bid stage.
RemoveBidResult_NoExpiry(sender) ==
    IF ~IsOwner(sender) THEN "Unauthorized"
    ELSE IF ~is_triggered(StageBid.start, block) THEN "BidStageNotBegun"
    ELSE IF ~IsSome(MapMayLoad(store.BIDS, sender)) THEN "StdNotFound"
    ELSE IF store.BIDS[sender] = 0 THEN "NonExistentBid"
    ELSE Ok

RemoveBidResult(sender) ==
    IF ~IsOwner(sender) THEN "Unauthorized"
    ELSE IF ~is_triggered(StageBid.start, block) THEN "BidStageNotBegun"
    ELSE IF is_expired(StageEnd(StageBid), block) THEN "BidStageEnded"
    ELSE IF ~IsSome(MapMayLoad(store.BIDS, sender)) THEN "StdNotFound"
    ELSE IF store.BIDS[sender] = 0 THEN "NonExistentBid"
    ELSE Ok

\* A RemoveBid that removes the bids of all participants.
execute_remove_bid_All(sender) ==
    LET err == RemoveBidResult(sender)
        written == [store EXCEPT !.BIDS = EmptyMap]
    IN  /\ store' = Commit(err, written)
        /\ call' = Call("RemoveBid", sender, <<>>, err, <<>>)
        /\ UNCHANGED block

\* RemoveBid builds the refund with send_back_bid and drops it: the response
\* carries no message.
execute_remove_bid(sender) ==
    LET err == RemoveBidResult(sender)
        written == [store EXCEPT !.BIDS = MapRemove(@, sender)]
    IN  /\ store' = Commit(err, written)
        /\ call' = Call("RemoveBid", sender, <<>>, err, <<>>)
        /\ UNCHANGED block

\* A RegisterMerkleRoot that does not authorize its sender.
RegisterMerkleRootResult_NoOwner(sender, merkle_root) ==
    IF ~HexDecode32(merkle_root).ok THEN "Hex" ELSE Ok

\* RegisterMerkleRoot without the length check of the root.
RegisterMerkleRootResult_NoDecode(sender, merkle_root) ==
    IF ~IsOwner(sender) THEN "Unauthorized" ELSE Ok

\* RegisterMerkleRoot, the handler contract.rs holds: one root, no totals.
RegisterMerkleRootResult(sender, merkle_root) ==
    IF ~IsOwner(sender) THEN "Unauthorized"
    ELSE IF ~HexDecode32(merkle_root).ok THEN "Hex"
    ELSE Ok

execute_register_merkle_root(sender, merkle_root) ==
    LET err == RegisterMerkleRootResult(sender, merkle_root)
        written == [store EXCEPT !.MERKLE_ROOT_AIRDROP = Some(merkle_root)]
    IN  /\ store' = Commit(err, written)
        /\ call' = Call("RegisterMerkleRoot", sender, [merkle_root |-> merkle_root],
                        err, <<>>)
        /\ UNCHANGED block

\* ------------------------------------- handlers absent from contract.rs
\* msg.rs declares RegisterMerkleRoots (with a total and a game root),
\* ClaimAirdrop and WithdrawAirdrop, and integration_test.rs calls them; their
\* handlers are not in contract.rs.  They follow the design document.

\* sorted_concat: the two digests in ascending order of raw byte value.
sorted_concat(h, p) == IF BytesLess(p, h) THEN p \o h ELSE h \o p

\* The fold of verify_proof from digest h over the proof elements: each is
\* hex-decoded to 32 bytes and hashed with h in sorted order.
RECURSIVE ProofFold(_, _)
ProofFold(h, proof) ==
    IF proof = <<>> THEN [ok |-> TRUE, digest |-> h]
    ELSE IF ~HexDecode32(Head(proof)).ok THEN [ok |-> FALSE, digest |-> h]
    ELSE ProofFold(SHA256(sorted_concat(h, HexDecode32(Head(proof)).bytes)),
                   Tail(proof))

verify_proof(leaf_preimage, proof) == ProofFold(SHA256(leaf_preimage), proof)

\* The leaf preimage: the identity string followed by the decimal string.
LeafPreimage(participant, value) == AddrText[participant] \o Decimal(value)

\* register_roots of the design document.
RegisterRootsResult(caller, airdrop_root, total_amount, game_root) ==
    IF ~IsOwner(caller) THEN "Unauthorized"
    ELSE IF ~HexDecode32(airdrop_root).ok THEN "Hex"
    ELSE IF IsSome(game_root) /\ ~HexDecode32(Unwrap(game_root)).ok THEN "Hex"
    ELSE Ok

\* A register_roots that also clears the claim records.
register_roots_ClearsRecords(caller, airdrop_root, total_amount, game_root) ==
    LET err == RegisterRootsResult(caller, airdrop_root, total_amount, game_root)
        written == [store EXCEPT
                      !.MERKLE_ROOT_AIRDROP = Some(airdrop_root),
                      !.MERKLE_ROOT_GAME = IF IsSome(game_root) THEN game_root ELSE @,
                      !.CLAIMED_AIRDROP_AMOUNT = Some(0),
                      !.TOTAL_AIRDROP_AMOUNT =
                          Some(IF IsSome(total_amount) THEN Unwrap(total_amount) ELSE 0),
                      !.CLAIM_AIRDROP = EmptyMap]
    IN  /\ store' = Commit(err, written)
        /\ call' = Call("RegisterMerkleRoots", caller,
                        [airdrop_root |-> airdrop_root, total_amount |-> total_amount,
                         game_root |-> game_root], err, <<>>)
        /\ UNCHANGED block

register_roots(caller, airdrop_root, total_amount, game_root) ==
    LET err == RegisterRootsResult(caller, airdrop_root, total_amount, game_root)
        written == [store EXCEPT
                      !.MERKLE_ROOT_AIRDROP = Some(airdrop_root),
                      !.MERKLE_ROOT_GAME = IF IsSome(game_root) THEN game_root ELSE @,
                      !.CLAIMED_AIRDROP_AMOUNT = Some(0),
                      !.TOTAL_AIRDROP_AMOUNT =
                          Some(IF IsSome(total_amount) THEN Unwrap(total_amount) ELSE 0)]
    IN  /\ store' = Commit(err, written)
        /\ call' = Call("RegisterMerkleRoots", caller,
                        [airdrop_root |-> airdrop_root, total_amount |-> total_amount,
                         game_root |-> game_root], err, <<>>)
        /\ UNCHANGED block

HasClaimed(participant) ==
    participant \in DOMAIN store.CLAIM_AIRDROP /\ store.CLAIM_AIRDROP[participant]

\* The digest claim_airdrop computes for the airdrop tree.
AirdropDigest(participant, amount, proof_airdrop) ==
    verify_proof(LeafPreimage(participant, amount), proof_airdrop)

\* claim_airdrop that does not consult the claim record.
ClaimAirdropResult_NoRecord(participant, amount, proof_airdrop, proof_game) ==
    IF ~is_triggered(StageClaimAirdrop.start, block) THEN "ClaimAirdropStageNotBegun"
    ELSE IF is_expired(StageEnd(StageClaimAirdrop), block) THEN "ClaimAirdropStageExpired"
    ELSE IF ~IsSome(store.MERKLE_ROOT_AIRDROP) THEN "StdNotFound"
    ELSE IF ~AirdropDigest(participant, amount, proof_airdrop).ok THEN "Hex"
    ELSE IF AirdropDigest(participant, amount, proof_airdrop).digest
            # HexDecode32(Unwrap(store.MERKLE_ROOT_AIRDROP)).bytes
         THEN "VerificationFailed"
    ELSE IF ~IsSome(store.CLAIMED_AIRDROP_AMOUNT) THEN "StdNotFound"
    ELSE Ok

\* claim_airdrop that decodes the proof but does not compare the digest with
\* the registered root.
ClaimAirdropResult_NoVerify(participant, amount, proof_airdrop, proof_game) ==
    IF ~is_triggered(StageClaimAirdrop.start, block) THEN "ClaimAirdropStageNotBegun"
    ELSE IF is_expired(StageEnd(StageClaimAirdrop), block) THEN "ClaimAirdropStageExpired"
    ELSE IF HasClaimed(participant) THEN "AlreadyClaimed"
    ELSE IF ~IsSome(store.MERKLE_ROOT_AIRDROP) THEN "StdNotFound"
    ELSE IF ~AirdropDigest(participant, amount, proof_airdrop).ok THEN "Hex"
    ELSE IF ~IsSome(store.CLAIMED_AIRDROP_AMOUNT) THEN "StdNotFound"
    ELSE Ok

\* The result of claim_airdrop of the design document: the stage gate first,
\* then the claim record, then the proof against the registered root.
ClaimAirdropResult(participant, amount, proof_airdrop, proof_game) ==
    IF ~is_triggered(StageClaimAirdrop.start, block) THEN "ClaimAirdropStageNotBegun"
    ELSE IF is_expired(StageEnd(StageClaimAirdrop), block) THEN "ClaimAirdropStageExpired"
    ELSE IF HasClaimed(participant) THEN "AlreadyClaimed"
    ELSE IF ~IsSome(store.MERKLE_ROOT_AIRDROP) THEN "StdNotFound"
    ELSE IF ~AirdropDigest(participant, amount, proof_airdrop).ok THEN "Hex"
    ELSE IF AirdropDigest(participant, amount, proof_airdrop).digest
            # HexDecode32(Unwrap(store.MERKLE_ROOT_AIRDROP)).bytes
         THEN "VerificationFailed"
    ELSE IF ~IsSome(store.CLAIMED_AIRDROP_AMOUNT) THEN "StdNotFound"
    ELSE Ok

\* Whether the claimant wins the game: a game root is registered, the
\* claimant has a stored bid, and the leaf (participant, bid) verifies
\* against the game root.  A mismatch is no error.
WinsGame(participant, proof_game) ==
    /\ IsSome(store.MERKLE_ROOT_GAME)
    /\ IsSome(MapMayLoad(store.BIDS, participant))
    /\ verify_proof(LeafPreimage(participant, store.BIDS[participant]), proof_game).ok
    /\ verify_proof(LeafPreimage(participant, store.BIDS[participant]), proof_game).digest
         = HexDecode32(Unwrap(store.MERKLE_ROOT_GAME)).bytes

\* A successful claim_airdrop that stores the amount of the claim as the
\* claimed amount instead of adding it.
ClaimAirdropStore_Overwrite(participant, amount, proof_game) ==
    [store EXCEPT
        !.CLAIM_AIRDROP = MapSave(@, participant, TRUE),
        !.CLAIMED_AIRDROP_AMOUNT = Some(amount),
        !.CLAIM_PRIZE = IF WinsGame(participant, proof_game)
                        THEN MapSave(@, participant, FALSE) ELSE @,
        !.WINNERS = IF WinsGame(participant, proof_game)
                    THEN Some((IF IsSome(@) THEN Unwrap(@) ELSE 0) + 1) ELSE @]

\* A successful claim_airdrop that counts a winner whatever the game proof.
ClaimAirdropStore_AlwaysWins(participant, amount, proof_game) ==
    [store EXCEPT
        !.CLAIM_AIRDROP = MapSave(@, participant, TRUE),
        !.CLAIMED_AIRDROP_AMOUNT = Some(Unwrap(@) + amount),
        !.CLAIM_PRIZE = MapSave(@, participant, FALSE),
        !.WINNERS = Some((IF IsSome(@) THEN Unwrap(@) ELSE 0) + 1)]

\* A successful claim_airdrop that forgets to advance the claimed amount.
ClaimAirdropStore_NoCount(participant, amount, proof_game) ==
    [store EXCEPT !.CLAIM_AIRDROP = MapSave(@, participant, TRUE)]

\* What a successful claim_airdrop writes.
ClaimAirdropStore(participant, amount, proof_game) ==
    [store EXCEPT
        !.CLAIM_AIRDROP = MapSave(@, participant, TRUE),
        !.CLAIMED_AIRDROP_AMOUNT = Some(Unwrap(@) + amount),
        !.CLAIM_PRIZE = IF WinsGame(participant, proof_game)
                        THEN MapSave(@, participant, FALSE) ELSE @,
        !.WINNERS = IF WinsGame(participant, proof_game)
                    THEN Some((IF IsSome(@) THEN Unwrap(@) ELSE 0) + 1) ELSE @]

\* The messages of a successful claim_airdrop.
ClaimAirdropMsgs(participant, amount) ==
    <<Cw20Transfer(Config.cw20_token_address, participant, amount)>>

claim_airdrop(participant, amount, proof_airdrop, proof_game) ==
    LET err == ClaimAirdropResult(participant, amount, proof_airdrop, proof_game)
    IN  /\ store' = Commit(err, ClaimAirdropStore(participant, amount, proof_game))
        /\ call' = Call("ClaimAirdrop", participant,
                        [amount |-> amount, proof_airdrop |-> proof_airdrop,
                         proof_game |-> proof_game], err,
                        IF err = Ok THEN ClaimAirdropMsgs(participant, amount) ELSE <<>>)
        /\ UNCHANGED block

\* A withdraw_airdrop that does not wait for the end of the claim stage.
WithdrawAirdropResult_NoStage(caller, recipient) ==
    IF ~IsOwner(caller) THEN "Unauthorized"
    ELSE IF ~IsSome(store.TOTAL_AIRDROP_AMOUNT) \/ ~IsSome(store.CLAIMED_AIRDROP_AMOUNT)
         THEN "StdNotFound"
    ELSE IF Unwrap(store.TOTAL_AIRDROP_AMOUNT) < Unwrap(store.CLAIMED_AIRDROP_AMOUNT)
         THEN "Panic"
    ELSE Ok

\* The result of withdraw_airdrop of the design document.  The remainder is a
\* Uint128 difference: it panics when the claimed amount exceeds the total.
WithdrawAirdropResult(caller, recipient) ==
    IF ~IsOwner(caller) THEN "Unauthorized"
    ELSE IF ~is_expired(StageEnd(StageClaimAirdrop), block)
         THEN "ClaimAirdropStageNotFinished"
    ELSE IF ~IsSome(store.TOTAL_AIRDROP_AMOUNT) \/ ~IsSome(store.CLAIMED_AIRDROP_AMOUNT)
         THEN "StdNotFound"
    ELSE IF Unwrap(store.TOTAL_AIRDROP_AMOUNT) < Unwrap(store.CLAIMED_AIRDROP_AMOUNT)
         THEN "Panic"
    ELSE Ok

\* A withdraw_airdrop that sends the whole total, whatever was claimed.
WithdrawAirdropMsgs_Total(recipient) ==
    <<Cw20Transfer(Config.cw20_token_address, recipient,
                   Unwrap(store.TOTAL_AIRDROP_AMOUNT))>>

\* The messages of a successful withdraw_airdrop.
WithdrawAirdropMsgs(recipient) ==
    <<Cw20Transfer(Config.cw20_token_address, recipient,
                   Unwrap(store.TOTAL_AIRDROP_AMOUNT)
                     - Unwrap(store.CLAIMED_AIRDROP_AMOUNT))>>

withdraw_airdrop(caller, recipient) ==
    LET err == WithdrawAirdropResult(caller, recipient)
    IN  /\ store' = Commit(err, store)
        /\ call' = Call("WithdrawAirdrop", caller, [address |-> recipient], err,
                        IF err = Ok THEN WithdrawAirdropMsgs(recipient) ELSE <<>>)
        /\ UNCHANGED block

\* --------------------------------------------------------------- inputs

\* The airdrop tree the owner commits to: the leaves (a, 11) and (a1, 2).
LeafA == SHA256(LeafPreimage("a", 11))

LeafB == SHA256(LeafPreimage("a1", 2))

TreeRoot == SHA256(sorted_concat(LeafA, LeafB))

\* A second tree, of the single leaf (a1, 2): its root is the leaf's digest.
SingleRoot == LeafB

\* The game tree: the single leaf (a, bid 1).
GameRoot == SHA256(LeafPreimage("a", 1))

\* A hex string that encodes fewer than 32 bytes.
BadHex == Hex(<<"[", "z">>)

\* A hex string that encodes more than 32 bytes: two digests in a row.
LongHex == Hex(LeafA \o LeafB)

RootInputs == {Hex(TreeRoot), Hex(SingleRoot), BadHex, LongHex}

GameRootInputs == {None, Some(Hex(GameRoot)), Some(BadHex)}

TotalInputs == {None, Some(13)}

AmountInputs == {1, 2, 11}

ProofInputs == {<<>>, <<Hex(LeafA)>>, <<Hex(LeafB)>>, <<BadHex>>}

GameProofInputs == {<<>>}

FundsInputs ==
    {<<>>, <<Coin(1, "ujuno")>>, <<Coin(2, "ujuno")>>, <<Coin(3, "ujuno")>>,
     <<Coin(2, "ubtc")>>, <<Coin(1, "ujuno"), Coin(1, "ujuno")>>}

AllocationInputs == {0, 1, 2}

OwnerInputs == {None, Some("a"), Some("o")}

Recipients == {"w"}

\* The stages of the tests (valid_stages), on a small clock.
TestStages ==
    [bid |-> Stage(1, 2), claim_airdrop |-> Stage(3, 2), claim_prize |-> Stage(5, 1)]

\* The number of bins of the game in the instantiate message.
TestBins == 1

InstantiateMsg(owner, stages) ==
    [owner |-> owner,
     cw20_token_address |-> "token",
     ticket_price |-> 2,
     bins |-> TestBins,
     stage_bid |-> stages.bid,
     stage_claim_airdrop |-> stages.claim_airdrop,
     stage_claim_prize |-> stages.claim_prize]

StageInputs == {Stage(s, d) : s \in 0..MaxStart, d \in 0..MaxDuration}

SetupMsgs ==
    {InstantiateMsg(owner, [bid |-> b, claim_airdrop |-> c, claim_prize |-> z]) :
        owner \in {None, Some("a")}, b \in StageInputs, c \in StageInputs,
        z \in StageInputs}

\* ------------------------------------------------------- specifications

\* The host runs one call at a time, to completion: a call starts only when
\* the response of the one before has been delivered.
Idle == call = NoCall

\* The response of the last call is delivered to its caller.
Respond ==
    /\ ~Idle
    /\ call' = NoCall
    /\ UNCHANGED <<store, block>>

\* The clock advances between calls.
Tick ==
    /\ block.height < MaxHeight
    /\ block' = [block EXCEPT !.height = @ + 1]
    /\ UNCHANGED <<store, call>>

\* The contract as the tests set it up: instantiated by "o" with the stages
\* of the tests, before the bid stage starts.
Init ==
    /\ store = InstantiateStore("o", InstantiateMsg(Some("o"), TestStages))
    /\ block = [height |-> 0]
    /\ call = NoCall

Next ==
    \/ Idle /\ Tick
    \/ Idle /\ \E sender \in Addrs, new_owner \in OwnerInputs :
          execute_update_config(sender, new_owner)
    \/ Idle /\ \E sender \in Addrs, funds \in FundsInputs,
                  allocation \in AllocationInputs :
          execute_bid(sender, funds, allocation)
    \/ Idle /\ \E sender \in Addrs, allocation \in AllocationInputs :
          execute_change_bid(sender, allocation)
    \/ Idle /\ \E sender \in Addrs : execute_remove_bid(sender)
    \/ Idle /\ \E sender \in Addrs, root \in RootInputs :
          execute_register_merkle_root(sender, root)
    \/ Idle /\ \E sender \in Addrs, root \in RootInputs, total \in TotalInputs,
                  game \in GameRootInputs :
          register_roots(sender, root, total, game)
    \/ Idle /\ \E sender \in Addrs, amount \in AmountInputs, proof \in ProofInputs,
                  proof_game \in GameProofInputs :
          claim_airdrop(sender, amount, proof, proof_game)
    \/ Idle /\ \E sender \in Addrs, recipient \in Recipients :
          withdraw_airdrop(sender, recipient)
    \/ Respond

Spec == Init /\ [][Next]_vars

\* Instantiation alone: any sender, any three stages, at any clock position.
InitSetup ==
    /\ store = EmptyStore
    /\ block \in {[height |-> h] : h \in 0..MaxHeight}
    /\ call = NoCall

NextSetup ==
    Idle /\ \E sender \in {"o", "a"}, msg \in SetupMsgs : instantiate(sender, msg)

SpecSetup == InitSetup /\ [][NextSetup]_vars

\* The bid handlers on a bid ledger they did not write.  Storage outlives the
\* code: migrate keeps it, so these handlers can run on a ledger that holds
\* bids already.  (Through Bid of this revision no bid is ever stored.)
BidLedgers == UNION {[S -> AllocationInputs] : S \in SUBSET Addrs}

InitLedger ==
    /\ store \in {[InstantiateStore("o", InstantiateMsg(Some("o"), TestStages))
                     EXCEPT !.BIDS = b] : b \in BidLedgers}
    /\ block = [height |-> 0]
    /\ call = NoCall

NextLedger ==
    \/ Idle /\ Tick
    \/ Idle /\ \E sender \in Addrs, new_owner \in OwnerInputs :
          execute_update_config(sender, new_owner)
    \/ Idle /\ \E sender \in Addrs, funds \in FundsInputs,
                  allocation \in AllocationInputs :
          execute_bid(sender, funds, allocation)
    \/ Idle /\ \E sender \in Addrs, allocation \in AllocationInputs :
          execute_change_bid(sender, allocation)
    \/ Idle /\ \E sender \in Addrs : execute_remove_bid(sender)
    \/ Respond

SpecLedger == InitLedger /\ [][NextLedger]_vars

\* The claim stage of a round in which bids were placed: the ledger holds the
\* bids of the participants, and the owner registers the roots of the airdrop
\* and of the game before the participants claim.
GameLedgers == UNION {[S -> {1, 2}] : S \in SUBSET {"a", "a1"}}

GameClaimProofs == {<<>>, <<Hex(LeafB)>>}

InitGame ==
    /\ store \in {[InstantiateStore("o", InstantiateMsg(Some("o"), TestStages))
                     EXCEPT !.BIDS = b] : b \in GameLedgers}
    /\ block = [height |-> 0]
    /\ call = NoCall

NextGame ==
    \/ Idle /\ Tick
    \/ Idle /\ \E caller \in Addrs, airdrop_root \in RootInputs,
                  total_amount \in TotalInputs, game_root \in GameRootInputs :
          register_roots(caller, airdrop_root, total_amount, game_root)
    \/ Idle /\ \E participant \in Addrs, amount \in AmountInputs,
                  proof_airdrop \in ProofInputs, proof_game \in GameClaimProofs :
          claim_airdrop(participant, amount, proof_airdrop, proof_game)
    \/ Respond

SpecGame == InitGame /\ [][NextGame]_vars

\* A whole round over a ledger that holds the bids of several participants:
\* the owner, "o" or "a", operates on its bid during the bid stage, registers
\* the roots, and the participants claim.
RecordLedgers == {("o" :> 1) @@ ("a" :> 2),
                  ("o" :> 2) @@ ("a" :> 1) @@ ("a1" :> 1)}

InitRecords ==
    /\ store \in {[InstantiateStore("o", InstantiateMsg(Some(w), TestStages))
                     EXCEPT !.BIDS = b] : w \in {"o", "a"}, b \in RecordLedgers}
    /\ block = [height |-> 0]
    /\ call = NoCall

NextRecords ==
    \/ Idle /\ Tick
    \/ Idle /\ \E sender \in Addrs, funds \in FundsInputs,
                  allocation \in AllocationInputs :
          execute_bid(sender, funds, allocation)
    \/ Idle /\ \E sender \in Addrs, allocation \in AllocationInputs :
          execute_change_bid(sender, allocation)
    \/ Idle /\ \E sender \in Addrs : execute_remove_bid(sender)
    \/ Idle /\ \E caller \in Addrs, airdrop_root \in RootInputs,
                  total_amount \in TotalInputs, game_root \in GameRootInputs :
          register_roots(caller, airdrop_root, total_amount, game_root)
    \/ Idle /\ \E participant \in Addrs, amount \in AmountInputs,
                  proof_airdrop \in ProofInputs, proof_game \in GameClaimProofs :
          claim_airdrop(participant, amount, proof_airdrop, proof_game)
    \/ Respond

SpecRecords == InitRecords /\ [][NextRecords]_vars

\* ----------------------------------------------------------- properties

\* A step that is a call of the operation `op`.
IsCall(op) == Idle /\ call'.op = op

\* Both airdrop counters are set (a registration with totals has happened).
CountersSet ==
    IsSome(store.CLAIMED_AIRDROP_AMOUNT) /\ IsSome(store.TOTAL_AIRDROP_AMOUNT)

ClaimedAmount == Unwrap(store.CLAIMED_AIRDROP_AMOUNT)

TotalAmount == Unwrap(store.TOTAL_AIRDROP_AMOUNT)

\* The claim window [start, start + duration) of the airdrop stage.
BeforeClaimWindow == block.height < StageClaimAirdrop.start

AfterClaimWindow ==
    block.height >= StageClaimAirdrop.start + StageClaimAirdrop.duration

InClaimWindow == ~BeforeClaimWindow /\ ~AfterClaimWindow

\* C1, as stated: once a participant's claim record is set, every later
\* airdrop claim of that participant fails with AlreadyClaimed, transfers
\* nothing and leaves the claimed amount unchanged.
C1_ClaimedThenAlreadyClaimed ==
    [][\A p \in Addrs :
          (HasClaimed(p) /\ IsCall("ClaimAirdrop") /\ call'.sender = p)
          => /\ call'.err = "AlreadyClaimed"
             /\ call'.msgs = <<>>
             /\ store'.CLAIMED_AIRDROP_AMOUNT = store.CLAIMED_AIRDROP_AMOUNT]_vars

\* C1, amended: once a participant's claim record is set it stays set, and
\* every later airdrop claim of that participant fails, transfers nothing and
\* leaves the claimed amount unchanged; the error is AlreadyClaimed while the
\* claim window is open and ClaimAirdropStageExpired once it has closed.
C1_ClaimedThenRejected ==
    [][\A p \in Addrs :
          HasClaimed(p)
          => /\ HasClaimed(p)'
             /\ (IsCall("ClaimAirdrop") /\ call'.sender = p)
                => /\ call'.err = IF AfterClaimWindow
                                  THEN "ClaimAirdropStageExpired"
                                  ELSE "AlreadyClaimed"
                   /\ call'.msgs = <<>>
                   /\ store'.CLAIMED_AIRDROP_AMOUNT
                        = store.CLAIMED_AIRDROP_AMOUNT]_vars

\* A participant who has claimed claims again inside the window, with the
\* proof that succeeded before, and is refused with AlreadyClaimed.
C1_Witness ==
    /\ call.op = "ClaimAirdrop"
    /\ call.err = "AlreadyClaimed"
    /\ HasClaimed(call.sender)
    /\ IsSome(store.MERKLE_ROOT_AIRDROP)
    /\ AirdropDigest(call.sender, call.arg.amount, call.arg.proof_airdrop).digest
         = HexDecode32(Unwrap(store.MERKLE_ROOT_AIRDROP)).bytes

\* C2, as stated: whenever the counters are set, the claimed amount is at
\* most the registered total (a total omitted at registration counts as 0).
C2_ClaimedAtMostTotal == CountersSet => ClaimedAmount <= TotalAmount

\* C3: a successful airdrop claim of `amount` by a participant sets the
\* participant's claim record, adds exactly `amount` to the claimed amount and
\* responds with exactly one transfer of `amount` of the configured token to
\* the participant; no step other than a successful claim or a registration
\* changes the claimed amount, so it is the sum of the successful claims.
C3_ClaimEffects ==
    [][/\ (IsCall("ClaimAirdrop") /\ call'.err = Ok)
          => /\ \A p \in Addrs : p = call'.sender => HasClaimed(p)'
             /\ store'.CLAIMED_AIRDROP_AMOUNT
                  = Some(ClaimedAmount + call'.arg.amount)
             /\ call'.msgs = <<[kind |-> "cw20_transfer",
                                asset |-> Config.cw20_token_address,
                                to |-> call'.sender,
                                amount |-> call'.arg.amount]>>
       /\ ~(call'.op \in {"ClaimAirdrop", "RegisterMerkleRoots"} /\ call'.err = Ok)
          => store'.CLAIMED_AIRDROP_AMOUNT = store.CLAIMED_AIRDROP_AMOUNT]_vars

\* Two participants have claimed, 11 and 2, and the claimed amount is 13.
C3_Witness ==
    /\ call.op = "ClaimAirdrop"
    /\ call.err = Ok
    /\ HasClaimed("a")
    /\ HasClaimed("a1")
    /\ store.CLAIMED_AIRDROP_AMOUNT = Some(13)

\* C4: inside the claim window, a claim by a participant with no claim record
\* whose proof decodes but does not fold to the registered root fails with
\* VerificationFailed, writes nothing and transfers nothing; every claim of
\* that participant that would have succeeded before it still succeeds after.
C4_VerificationFailedNoEffect ==
    [][\A p \in Addrs :
          (/\ IsCall("ClaimAirdrop")
           /\ call'.sender = p
           /\ InClaimWindow
           /\ ~HasClaimed(p)
           /\ IsSome(store.MERKLE_ROOT_AIRDROP)
           /\ AirdropDigest(p, call'.arg.amount, call'.arg.proof_airdrop).ok
           /\ AirdropDigest(p, call'.arg.amount, call'.arg.proof_airdrop).digest
                # HexDecode32(Unwrap(store.MERKLE_ROOT_AIRDROP)).bytes)
          => /\ call'.err = "VerificationFailed"
             /\ store' = store
             /\ call'.msgs = <<>>
             /\ \A amount \in AmountInputs, proof \in ProofInputs :
                   ClaimAirdropResult(p, amount, proof, <<>>) = Ok
                   => ClaimAirdropResult(p, amount, proof, <<>>)' = Ok]_vars

\* A claim has failed verification, and its sender, who has no claim record,
\* has a claim that succeeds now.
C4_Witness ==
    /\ call.op = "ClaimAirdrop"
    /\ call.err = "VerificationFailed"
    /\ ~HasClaimed(call.sender)
    /\ \E amount \in AmountInputs, proof \in ProofInputs :
          ClaimAirdropResult(call.sender, amount, proof, <<>>) = Ok

\* C5: an airdrop claim before the start of the claim window fails with
\* ClaimAirdropStageNotBegun and one at or after its end with
\* ClaimAirdropStageExpired, whatever the proof; neither writes or transfers
\* anything, and a claim succeeds only inside the window.
C5_ClaimOnlyInWindow ==
    [][IsCall("ClaimAirdrop")
       => /\ BeforeClaimWindow
             => /\ call'.err = "ClaimAirdropStageNotBegun"
                /\ store' = store
                /\ call'.msgs = <<>>
          /\ (AfterClaimWindow /\ ~BeforeClaimWindow)
             => /\ call'.err = "ClaimAirdropStageExpired"
                /\ store' = store
                /\ call'.msgs = <<>>
          /\ InClaimWindow
             => call'.err \notin {"ClaimAirdropStageNotBegun",
                                  "ClaimAirdropStageExpired"}
          /\ call'.err = Ok => InClaimWindow]_vars

\* A claim whose proof folds to the registered root is refused at the first
\* height past the window, with ClaimAirdropStageExpired.
C5_Witness ==
    /\ call.op = "ClaimAirdrop"
    /\ call.err = "ClaimAirdropStageExpired"
    /\ block.height = StageClaimAirdrop.start + StageClaimAirdrop.duration
    /\ ~HasClaimed(call.sender)
    /\ IsSome(store.MERKLE_ROOT_AIRDROP)
    /\ AirdropDigest(call.sender, call.arg.amount, call.arg.proof_airdrop).digest
         = HexDecode32(Unwrap(store.MERKLE_ROOT_AIRDROP)).bytes

\* C6: a successful withdraw_airdrop happens after the claim window has
\* closed and responds with exactly one transfer, of the configured token, to
\* the recipient named in the call, of the total minus the claimed amount as
\* they stand at the call.
C6_WithdrawTransfersRemainder ==
    [][(IsCall("WithdrawAirdrop") /\ call'.err = Ok)
       => /\ AfterClaimWindow
          /\ CountersSet
          /\ call'.msgs = <<[kind |-> "cw20_transfer",
                             asset |-> Config.cw20_token_address,
                             to |-> call'.arg.address,
                             amount |-> TotalAmount - ClaimedAmount]>>]_vars

\* With 13 registered and 11 claimed, the withdrawal transfers 2.
C6_Witness ==
    /\ call.op = "WithdrawAirdrop"
    /\ call.err = Ok
    /\ TotalAmount = 13
    /\ ClaimedAmount = 11
    /\ call.msgs[1].amount = 2
    /\ call.msgs[1].to = "w"

\* C7: withdraw_airdrop by anyone but the current owner fails with
\* Unauthorized; by the owner before the end of the claim window it fails
\* with ClaimAirdropStageNotFinished; it returns neither error otherwise; and
\* a withdrawal that fails writes nothing and transfers nothing.
C7_WithdrawRejected ==
    [][IsCall("WithdrawAirdrop")
       => /\ (call'.err = "Unauthorized") <=> (Config.owner # <<call'.sender>>)
          /\ (call'.err = "ClaimAirdropStageNotFinished")
             <=> (Config.owner = <<call'.sender>> /\ ~AfterClaimWindow)
          /\ call'.err # Ok => (store' = store /\ call'.msgs = <<>>)]_vars

\* The owner, with 13 registered and less claimed, is refused at the last
\* height of the claim window.
C7_Witness ==
    /\ call.op = "WithdrawAirdrop"
    /\ call.err = "ClaimAirdropStageNotFinished"
    /\ Config.owner = <<call.sender>>
    /\ block.height + 1 = StageClaimAirdrop.start + StageClaimAirdrop.duration
    /\ CountersSet
    /\ ClaimedAmount < TotalAmount

\* The results setup validation allows for the stages of `msg` at height h:
\* Ok when the bid start is strictly ahead and the stages do not overlap, and
\* otherwise an error for a condition that is broken.
SetupResults(msg, h) ==
    LET passed == h >= msg.stage_bid.start
        first == msg.stage_bid.start + msg.stage_bid.duration
                   > msg.stage_claim_airdrop.start
        second == msg.stage_claim_airdrop.start + msg.stage_claim_airdrop.duration
                    > msg.stage_claim_prize.start
    IN  IF ~passed /\ ~first /\ ~second THEN {Ok}
        ELSE (IF passed THEN {"BidStartPassed"} ELSE {})
             \cup (IF first THEN {"StagesOverlap(bid, claim airdrop)"} ELSE {})
             \cup (IF second THEN {"StagesOverlap(claim airdrop, claim prize)"} ELSE {})

\* C8: instantiate succeeds if and only if the bid start is strictly in the
\* future and end(bid) <= start(claim_airdrop) and end(claim_airdrop) <=
\* start(claim_prize); otherwise it fails with BidStartPassed or with
\* StagesOverlap naming the two stages that overlap.
C8_SetupValidation ==
    call.op = "Instantiate" => call.err \in SetupResults(call.arg, block.height)

\* C9: Bid, ChangeBid and RemoveBid invoked before the start of the bid
\* window fail with the bid stage-not-begun error and invoked at or after its
\* end with the bid stage-ended error, leaving the bid map unchanged and
\* sending nothing; they succeed only inside the window.
C9_BidOpsOnlyInWindow ==
    [][(Idle /\ call'.op \in {"Bid", "ChangeBid", "RemoveBid"})
       => /\ block.height < StageBid.start
             => /\ call'.err = "BidStageNotBegun"
                /\ store'.BIDS = store.BIDS
                /\ call'.msgs = <<>>
          /\ block.height >= StageBid.start + StageBid.duration
             => /\ call'.err \in {"BidStageEnded", "BidStageExpired"}
                /\ store'.BIDS = store.BIDS
                /\ call'.msgs = <<>>
          /\ call'.err = Ok
             => /\ block.height >= StageBid.start
                /\ block.height < StageBid.start + StageBid.duration]_vars

InBidWindow ==
    /\ block.height >= StageBid.start
    /\ block.height < StageBid.start + StageBid.duration

\* The stored ticket price.
TicketPrice == Unwrap(store.TICKET_PRICE)

\* C11: inside the bid window, a Bid from a participant with no stored bid
\* whose funds in the ticket denomination total less than the ticket price
\* fails with TicketPriceNotPaid, writes nothing and sends nothing.
C11_UnderpaidBidRejected ==
    [][\A p \in Addrs :
          (/\ IsCall("Bid")
           /\ call'.sender = p
           /\ p \notin DOMAIN store.BIDS
           /\ InBidWindow
           /\ SumDenom(call'.arg.funds, "ujuno") < TicketPrice)
          => /\ call'.err = "TicketPriceNotPaid"
             /\ store' = store
             /\ call'.msgs = <<>>]_vars

C13_FirstBidStored ==
    [][\A p \in Addrs :
          (/\ IsCall("Bid")
           /\ call'.sender = p
           /\ Config.owner = <<p>>
           /\ p \notin DOMAIN store.BIDS
           /\ InBidWindow
           /\ SumDenom(call'.arg.funds, "ujuno") >= TicketPrice)
          => /\ call'.err = Ok
             /\ p \in DOMAIN store'.BIDS
             /\ store'.BIDS[p] = call'.arg.allocation]_vars

\* C14: bidding is open to every participant: inside the bid window no Bid,
\* ChangeBid or RemoveBid is refused as Unauthorized, whoever sends it.
C14_BidOpenToAll ==
    [][(Idle /\ call'.op \in {"Bid", "ChangeBid", "RemoveBid"} /\ InBidWindow)
       => call'.err # "Unauthorized"]_vars

C16_MissingBidTypedError ==
    [][\A p \in Addrs :
          (/\ Idle
           /\ call'.op \in {"ChangeBid", "RemoveBid"}
           /\ call'.sender = p
           /\ Config.owner = <<p>>
           /\ p \notin DOMAIN store.BIDS
           /\ InBidWindow)
          => /\ call'.err \in {"BidNotPresent", "NonExistentBid"}
             /\ call'.msgs = <<>>
             /\ store'.BIDS = store.BIDS]_vars

C18_BinOutOfRangeRejected ==
    [][\A p \in Addrs :
          (/\ IsCall("Bid")
           /\ call'.sender = p
           /\ Config.owner = <<p>>
           /\ p \notin DOMAIN store.BIDS
           /\ InBidWindow
           /\ SumDenom(call'.arg.funds, "ujuno") >= TicketPrice)
          => /\ call'.arg.allocation > TestBins
                => /\ call'.err = "BinNotExists"
                   /\ store' = store
                   /\ call'.msgs = <<>>
             /\ call'.arg.allocation <= TestBins
                => call'.err # "BinNotExists"]_vars

\* C19: a registration of roots, by either entry point, from a sender who is
\* not the current owner fails with Unauthorized and leaves the storage, so
\* the stored roots, the total and the claimed amount, unchanged.
C19_RegistrationOwnerOnly ==
    [][(/\ Idle
        /\ call'.op \in {"RegisterMerkleRoot", "RegisterMerkleRoots"}
        /\ Config.owner # <<call'.sender>>)
       => /\ call'.err = "Unauthorized"
          /\ store' = store
          /\ call'.msgs = <<>>]_vars

\* A sender who is not the owner offers a well-formed root, different from
\* the stored one, after claims were paid, and is refused.
C19_Witness ==
    /\ call.op = "RegisterMerkleRoot"
    /\ call.err = "Unauthorized"
    /\ Config.owner # <<call.sender>>
    /\ HexDecode32(call.arg.merkle_root).ok
    /\ IsSome(store.MERKLE_ROOT_AIRDROP)
    /\ call.arg.merkle_root # Unwrap(store.MERKLE_ROOT_AIRDROP)
    /\ CountersSet
    /\ ClaimedAmount > 0

\* C20: a registration that supplies a root which does not decode to exactly
\* 32 bytes does not succeed (the owner gets the decode error) and leaves the
\* storage unchanged; hence every stored root decodes to exactly 32 bytes.
C20_RootsDecodeTo32Bytes ==
    [][/\ (/\ Idle
           /\ \/ /\ call'.op = "RegisterMerkleRoot"
                 /\ ~HexDecode32(call'.arg.merkle_root).ok
              \/ /\ call'.op = "RegisterMerkleRoots"
                 /\ \/ ~HexDecode32(call'.arg.airdrop_root).ok
                    \/ /\ IsSome(call'.arg.game_root)
                       /\ ~HexDecode32(Unwrap(call'.arg.game_root)).ok)
          => /\ call'.err = IF Config.owner = <<call'.sender>>
                            THEN "Hex" ELSE "Unauthorized"
             /\ store' = store
       /\ IsSome(store'.MERKLE_ROOT_AIRDROP)
          => HexDecode32(Unwrap(store'.MERKLE_ROOT_AIRDROP)).ok
       /\ IsSome(store'.MERKLE_ROOT_GAME)
          => HexDecode32(Unwrap(store'.MERKLE_ROOT_GAME)).ok]_vars

\* The owner offers a string that encodes more than 32 bytes while a root is
\* stored and claims were paid; the call fails with the decode error.
C20_Witness ==
    /\ call.op = "RegisterMerkleRoot"
    /\ call.err = "Hex"
    /\ call.arg.merkle_root = LongHex
    /\ IsSome(store.MERKLE_ROOT_AIRDROP)
    /\ CountersSet
    /\ ClaimedAmount > 0

\* C21: a successful registration of roots stores the supplied airdrop root
\* (and game root), sets the claimed amount to 0 and stores the total as the
\* supplied total, or 0 when none is supplied.
C21_RegistrationStores ==
    [][/\ (IsCall("RegisterMerkleRoot") /\ call'.err = Ok)
          => /\ store'.MERKLE_ROOT_AIRDROP = Some(call'.arg.merkle_root)
             /\ store'.CLAIMED_AIRDROP_AMOUNT = Some(0)
             /\ store'.TOTAL_AIRDROP_AMOUNT = Some(0)
       /\ (IsCall("RegisterMerkleRoots") /\ call'.err = Ok)
          => /\ store'.MERKLE_ROOT_AIRDROP = Some(call'.arg.airdrop_root)
             /\ IsSome(call'.arg.game_root)
                => store'.MERKLE_ROOT_GAME = call'.arg.game_root
             /\ store'.CLAIMED_AIRDROP_AMOUNT = Some(0)
             /\ store'.TOTAL_AIRDROP_AMOUNT
                  = IF IsSome(call'.arg.total_amount)
                    THEN call'.arg.total_amount ELSE Some(0)]_vars

\* The operations only the owner may invoke.
OwnerOps == {"UpdateConfig", "RegisterMerkleRoot", "RegisterMerkleRoots",
             "WithdrawAirdrop"}

\* C22: once no owner is set, no owner is set in every later state, and
\* every owner-only operation fails with Unauthorized, whoever sends it.
C22_FreezePermanent ==
    [][~IsSome(Config.owner)
       => /\ ~IsSome(Config.owner)'
          /\ (Idle /\ call'.op \in OwnerOps)
             => /\ call'.err = "Unauthorized"
                /\ store' = store
                /\ call'.msgs = <<>>]_vars

\* The contract is frozen, and the address that instantiated it as owner
\* tries to name an owner again and is refused.
C22_Witness ==
    /\ ~IsSome(Config.owner)
    /\ call.op = "UpdateConfig"
    /\ call.sender = "o"
    /\ IsSome(call.arg.new_owner)
    /\ call.err = "Unauthorized"

\* C23: while no owner is set, inside the bid window no Bid, ChangeBid or
\* RemoveBid is refused as Unauthorized, and no airdrop claim is refused as
\* Unauthorized.
C23_FreezeLeavesRecipients ==
    [][(~IsSome(Config.owner) /\ Idle)
       => /\ (call'.op \in {"Bid", "ChangeBid", "RemoveBid"} /\ InBidWindow)
             => call'.err # "Unauthorized"
          /\ call'.op = "ClaimAirdrop" => call'.err # "Unauthorized"]_vars

\* C24: the owner changes only in a successful UpdateConfig sent by the
\* current owner, and becomes the owner named in the call; an UpdateConfig
\* from anyone else fails with Unauthorized and leaves the storage unchanged.
C24_OwnerChangedByOwnerOnly ==
    [][/\ Config.owner' # Config.owner
          => /\ IsCall("UpdateConfig")
             /\ call'.err = Ok
             /\ Config.owner = <<call'.sender>>
             /\ Config.owner' = call'.arg.new_owner
       /\ (IsCall("UpdateConfig") /\ Config.owner # <<call'.sender>>)
          => /\ call'.err = "Unauthorized"
             /\ store' = store]_vars

\* Ownership has passed from "o" to "a", and the UpdateConfig by which "o"
\* tries to take it back is refused.
C24_Witness ==
    /\ Config.owner = Some("a")
    /\ call.op = "UpdateConfig"
    /\ call.sender = "o"
    /\ call.arg.new_owner = Some("o")
    /\ call.err = "Unauthorized"

\* C25: after instantiate the owner is the address the message names when it
\* names one, whoever sent the call, and the sender of the call when it names
\* none; in both cases an owner is set.
C25_InitialOwner ==
    call.op = "Instantiate"
    => /\ call.err = Ok
       /\ IsSome(store.CONFIG)
       /\ IsSome(Config.owner)
       /\ Config.owner = IF IsSome(call.arg.owner)
                         THEN call.arg.owner ELSE <<call.sender>>

\* "o" instantiates with a message that names "a": the owner is "a".
C25_Witness ==
    /\ call.op = "Instantiate"
    /\ call.sender = "o"
    /\ call.arg.owner = Some("a")
    /\ Config.owner = Some("a")

\* C26: a call that does not succeed leaves the whole storage as it found it,
\* emits no message, and ends with a typed error, never with a panic.
C26_FailureAtomicTyped ==
    [][(Idle /\ call'.op # "None" /\ call'.err # Ok)
       => /\ store' = store
          /\ call'.msgs = <<>>
          /\ call'.err # "Panic"]_vars

WinnersCounter == IF IsSome(store.WINNERS) THEN Unwrap(store.WINNERS) ELSE 0

\* The proof of the game submitted for the stored bid of p leads to the
\* registered root of the game.
GameProofVerifies(p, proof_game) ==
    LET v == verify_proof(LeafPreimage(p, store.BIDS[p]), proof_game)
    IN  v.ok /\ v.digest = HexDecode32(Unwrap(store.MERKLE_ROOT_GAME)).bytes

RegisterOps == {"RegisterMerkleRoot", "RegisterMerkleRoots"}

\* The airdrop root a registration call supplies.
SuppliedRoot(c) ==
    IF c.op = "RegisterMerkleRoot" THEN c.arg.merkle_root ELSE c.arg.airdrop_root

\* C29 as stated: once a root is stored, it has the same value in every later
\* state, whatever operation follows.
C29_RootsImmutable ==
    [][/\ IsSome(store.MERKLE_ROOT_AIRDROP)
          => store'.MERKLE_ROOT_AIRDROP = store.MERKLE_ROOT_AIRDROP
       /\ IsSome(store.MERKLE_ROOT_GAME)
          => store'.MERKLE_ROOT_GAME = store.MERKLE_ROOT_GAME]_vars

\* C29: the stored airdrop root and game root change only in a successful
\* registration sent by the current owner, and then hold the roots that
\* registration supplies; no other operation changes them.
C29_RootsChangedByOwnerRegistration ==
    [][/\ store'.MERKLE_ROOT_AIRDROP # store.MERKLE_ROOT_AIRDROP
          => /\ Idle /\ call'.op \in RegisterOps
             /\ call'.err = Ok
             /\ Config.owner = <<call'.sender>>
             /\ store'.MERKLE_ROOT_AIRDROP = Some(SuppliedRoot(call'))
       /\ store'.MERKLE_ROOT_GAME # store.MERKLE_ROOT_GAME
          => /\ IsCall("RegisterMerkleRoots")
             /\ call'.err = Ok
             /\ Config.owner = <<call'.sender>>
             /\ store'.MERKLE_ROOT_GAME = call'.arg.game_root]_vars

\* "a" was paid under the two-leaf root, and the owner has just registered
\* the single-leaf root in its place.
C29_Witness ==
    /\ call.op \in RegisterOps
    /\ call.sender = "o"
    /\ call.err = Ok
    /\ SuppliedRoot(call) = Hex(SingleRoot)
    /\ store.MERKLE_ROOT_AIRDROP = Some(Hex(SingleRoot))
    /\ HasClaimed("a")

\* C30: when the owner registers roots again after claims have been paid, the
\* supplied root replaces the stored one, the claimed amount is reset to 0,
\* and the claim records of the earlier claimants are kept.
C30_ReRegistrationResets ==
    [][(/\ Idle /\ call'.op \in RegisterOps
        /\ call'.err = Ok
        /\ IsSome(store.MERKLE_ROOT_AIRDROP)
        /\ CountersSet /\ ClaimedAmount > 0)
       => /\ store'.MERKLE_ROOT_AIRDROP = Some(SuppliedRoot(call'))
          /\ store'.CLAIMED_AIRDROP_AMOUNT = Some(0)
          /\ store'.CLAIM_AIRDROP = store.CLAIM_AIRDROP]_vars

C32_ClaimRecordsWriteOnce ==
    [][\A p \in Addrs :
          /\ HasClaimed(p) => HasClaimed(p)'
          /\ (~HasClaimed(p) /\ HasClaimed(p)')
             => /\ IsCall("ClaimAirdrop")
                /\ call'.sender = p
                /\ call'.err = Ok]_vars

\* "a" was paid under the two-leaf root; since then the roots were registered
\* again, the ownership passed to "a", and the new owner has just withdrawn:
\* the record of "a" is still set.
C32_Witness ==
    /\ call.op = "WithdrawAirdrop"
    /\ call.err = Ok
    /\ Config.owner = Some("a")
    /\ store.MERKLE_ROOT_AIRDROP = Some(Hex(SingleRoot))
    /\ HasClaimed("a")

C34_OthersRecordsUntouched ==
    [][\A p \in Addrs, q \in Addrs :
          (/\ p # q
           /\ Idle
           /\ call'.op \in {"Bid", "ChangeBid", "RemoveBid", "ClaimAirdrop"}
           /\ call'.sender = p)
          => /\ MapMayLoad(store'.BIDS, q) = MapMayLoad(store.BIDS, q)
             /\ MapMayLoad(store'.CLAIM_AIRDROP, q)
                  = MapMayLoad(store.CLAIM_AIRDROP, q)]_vars

\* The owner "o" has removed its own bid, "a" has claimed, and "a1" has just
\* claimed: the bid of "a" and the claim record of "a" are in place.
C34_Witness ==
    /\ call.op = "ClaimAirdrop"
    /\ call.sender = "a1"
    /\ call.err = Ok
    /\ "o" \notin DOMAIN store.BIDS
    /\ MapMayLoad(store.BIDS, "a") = Some(2)
    /\ HasClaimed("a")

RemainderWithdrawable ==
    \E c \in Addrs, r \in Recipients :
        /\ WithdrawAirdropResult(c, r) = Ok
        /\ WithdrawAirdropMsgs(r)[1].amount > 0

\* C36: the remainder of a distribution is paid out once: a WithdrawAirdrop
\* that instructs the transfer of a positive remainder leaves a state in
\* which a further WithdrawAirdrop does not instruct a transfer of a
\* remainder again.
C36_RemainderWithdrawnOnce ==
    [][(/\ IsCall("WithdrawAirdrop")
        /\ call'.err = Ok
        /\ call'.msgs # <<>>
        /\ call'.msgs[1].amount > 0)
       => ~RemainderWithdrawable']_vars

\* A ClaimAirdrop sent now by some participant would succeed.
ClaimEnabled ==
    \E p \in Addrs, m \in AmountInputs, pa \in ProofInputs, pg \in GameProofInputs :
        ClaimAirdropResult(p, m, pa, pg) = Ok

\* A WithdrawAirdrop sent now by some caller would succeed.
WithdrawEnabled ==
    \E c \in Addrs, r \in Recipients : WithdrawAirdropResult(c, r) = Ok

\* C37: after a state in which a WithdrawAirdrop has succeeded there is no
\* state in which a ClaimAirdrop has succeeded; because the clock never goes
\* back and the claim stage never changes, a WithdrawAirdrop succeeds only
\* once the claim stage has ended and a ClaimAirdrop only before it has
\* ended, and at no clock position are both enabled.
C37_NoClaimAfterWithdraw ==
    /\ []((call.op = "WithdrawAirdrop" /\ call.err = Ok)
          => [](~(call.op = "ClaimAirdrop" /\ call.err = Ok)))
    /\ [][/\ block'.height >= block.height
          /\ store'.STAGE_CLAIM_AIRDROP = store.STAGE_CLAIM_AIRDROP
          /\ (IsCall("WithdrawAirdrop") /\ call'.err = Ok) => AfterClaimWindow
          /\ (IsCall("ClaimAirdrop") /\ call'.err = Ok) => ~AfterClaimWindow
          /\ ~(WithdrawEnabled /\ ClaimEnabled)]_vars

\* "a1" claimed 2 inside the window, and the owner has withdrawn after it.
C37_Witness ==
    /\ call.op = "WithdrawAirdrop"
    /\ call.err = Ok
    /\ AfterClaimWindow
    /\ HasClaimed("a1")
    /\ ~HasClaimed("a")
    /\ ClaimedAmount = 2

\* The funds of the ticket denomination the contract receives with a call:
\* those attached to a Bid that succeeds (a failed call gives them back).
TicketFundsReceived(c) ==
    IF c.op = "Bid" /\ c.err = Ok THEN SumDenom(c.arg.funds, "ujuno") ELSE 0

\* The funds of the ticket denomination the response of a call sends out.
RECURSIVE TicketFundsSent(_)
TicketFundsSent(msgs) ==
    IF msgs = <<>> THEN 0
    ELSE (IF Head(msgs).kind = "bank_send" /\ Head(msgs).asset = "ujuno"
          THEN Head(msgs).amount ELSE 0) + TicketFundsSent(Tail(msgs))

IssuedLeaves == {<<"a", 11>>, <<"a1", 2>>}

\* C40: the leaf preimage tells the (participant, amount) pairs apart, so a
\* proof issued for one pair is not redeemed by another participant or for
\* another amount: every successful claim_airdrop is the claim of a pair the
\* registered tree was built from.
C40_OnlyIssuedLeavesRedeemed ==
    [][(IsCall("ClaimAirdrop") /\ call'.err = Ok)
       => <<call'.sender, call'.arg.amount>> \in IssuedLeaves]_vars

====
